---- MODULE Spec2Model ----
(***************************************************************************)
(* Model of the arbitrage monitor: the spread analyzer, the notification   *)
(* gate with its cooldown table, the session statistics, and the           *)
(* monitoring loop that drives them.                                       *)
(*                                                                         *)
(* Time is counted in whole seconds since the analyzer was constructed.    *)
(* A datetime is the number of seconds; a timedelta is a difference.       *)
(***************************************************************************)
EXTENDS Integers, Sequences, FiniteSets, TLC

VARIABLES
    config,                 \* SimpleConfig fields read by the core
    now,                    \* the value datetime.now() returns
    last_notifications,     \* NotificationManager.last_notifications (dict)
    session_stats,          \* ArbitrageAnalyzer.session_stats
    pc,                     \* where the driving process stands
    price_data,             \* argument of the last analyze_arbitrage_opportunities call
    raised,                 \* exception that escaped the last call ("none" if none)
    warnings,               \* symbols the last call reported with logger.warning
    opportunities,          \* list returned by analyze / argument of filter_notifications
    new_opportunities,      \* filter_notifications: list before truncation
    limited_opportunities,  \* filter_notifications: returned list
    before,                 \* cooldown table on entry to the last filter call
    last_accept,            \* per (symbol, buy, sell): the last time it was returned
    accept_before,          \* last_accept on entry to the last filter call
    is_running,             \* ArbitrageBotSystem.is_running
    stop_signalled,         \* signal_handler has run at least once
    cycle_count,            \* monitoring_cycle: cycle_count
    cycle_start,            \* monitoring_cycle: cycle_start
    symbols,                \* monitoring_cycle: symbols of the current cycle
    symbol_index,           \* fetch_all_tickers: position in "for symbol in symbols"
    dispatched,             \* argument of the last send_arbitrage_alerts call
    dispatched_at,          \* clock at the last send_arbitrage_alerts call
    last_sent,              \* per (symbol, buy, sell): the last time it was dispatched
    sent_before,            \* last_sent on entry to the last send_arbitrage_alerts call
    call,                   \* the last call on the analyzer: which, and the counters
                            \* and the cooldown table on its entry
    returned,               \* total lengths of the lists analyze and filter returned and of the lists dispatched
    overview,               \* what get_market_overview returned, if it was the last call
    iterations              \* monitoring_cycle: iterations skipped, aborted by an exception,
                            \* left by break, and those in which fetch_all_tickers returned

coreVars == <<config, now, last_notifications, session_stats>>
analyzeVars == <<price_data, raised, warnings, opportunities>>
gateVars == <<new_opportunities, limited_opportunities, before, last_accept,
              accept_before>>
loopVars == <<is_running, stop_signalled, cycle_count, cycle_start, symbols,
              symbol_index>>
sendVars == <<dispatched, dispatched_at, last_sent, sent_before>>
callVars == <<call, returned, overview>>

vars == <<coreVars, pc, analyzeVars, gateVars, loopVars, sendVars, callVars,
          iterations>>

(***************************************************************************)
(* Bounds of the model.                                                    *)
(***************************************************************************)
MaxTime == 21600
MaxOpps == 2
MaxAlertsTotal == 3
MaxBatch == 3
MaxLiquidBatch == 6

\* Amounts by which the clock moves between two filter calls.
TimeSteps == {0, 60 * 60, 120 * 60, 240 * 60, 300 * 60}

CooldownChoices == {120, 360}
MaxAlertsChoices == {0, 1, 2}

(***************************************************************************)
(* Helpers on sequences.                                                   *)
(***************************************************************************)
Range(s) == {s[i] : i \in DOMAIN s}

SeqsUpTo(S, n) == UNION {[1..k -> S] : k \in 0..n}

\* The sequences of at most n elements of S in which no element repeats.
Arrangements(S, n) ==
    {s \in SeqsUpTo(S, n) : \A i, j \in DOMAIN s : i # j => s[i] # s[j]}

Min2(a, b) == IF a <= b THEN a ELSE b
Max2(a, b) == IF a >= b THEN a ELSE b

\* Python's lst[:n]
SliceNoLimit(lst, n) == lst
SliceTail(lst, n) ==
    SubSeq(lst, Len(lst) - Min2(Max2(n, 0), Len(lst)) + 1, Len(lst))
Slice(lst, n) ==
    IF n >= 0 THEN SubSeq(lst, 1, Min2(n, Len(lst)))
              ELSE SubSeq(lst, 1, Max2(Len(lst) + n, 0))

(***************************************************************************)
(* data_models.py: ArbitrageOpportunity and NotificationManager            *)
(***************************************************************************)
\* price_difference_percent is the exact quotient num/den (den > 0).
ArbitrageOpportunity(symbol, buy, sell, buy_price, sell_price, pd, vol, ts) ==
    [symbol |-> symbol, buy_exchange |-> buy, sell_exchange |-> sell,
     buy_price |-> buy_price, sell_price |-> sell_price,
     price_difference_percent |-> pd, min_volume_24h |-> vol, timestamp |-> ts]

\* f"{symbol}_{buy_exchange}_{sell_exchange}"
KeyOf(opp) == opp.symbol \o "_" \o opp.buy_exchange \o "_" \o opp.sell_exchange

\* The key without its direction: what a lookup that ignores direction would use.
ReverseKeyOf(opp) == opp.symbol \o "_" \o opp.sell_exchange \o "_" \o opp.buy_exchange

DictSet(d, k, v) == [x \in DOMAIN d \cup {k} |-> IF x = k THEN v ELSE d[x]]

RetentionSeconds == 4 * 3600

\* should_notify(opportunity) at clock t on table d: the answer and the new table
should_notify_strict(opp, d, t) ==
    LET key == KeyOf(opp) IN
    IF key \notin DOMAIN d
    THEN [ok |-> TRUE, table |-> DictSet(d, key, t)]
    ELSE IF (t - d[key]) > 60 * config.ALERT_COOLDOWN_MINUTES
         THEN [ok |-> TRUE, table |-> DictSet(d, key, t)]
         ELSE [ok |-> FALSE, table |-> d]

should_notify_undirected(opp, d, t) ==
    LET key == IF KeyOf(opp) \in DOMAIN d \/ ReverseKeyOf(opp) \notin DOMAIN d
               THEN KeyOf(opp) ELSE ReverseKeyOf(opp) IN
    IF key \notin DOMAIN d
    THEN [ok |-> TRUE, table |-> DictSet(d, key, t)]
    ELSE IF (t - d[key]) >= 60 * config.ALERT_COOLDOWN_MINUTES
         THEN [ok |-> TRUE, table |-> DictSet(d, key, t)]
         ELSE [ok |-> FALSE, table |-> d]

should_notify_refreshing(opp, d, t) ==
    LET key == KeyOf(opp) IN
    IF key \notin DOMAIN d
    THEN [ok |-> TRUE, table |-> DictSet(d, key, t)]
    ELSE IF (t - d[key]) >= 60 * config.ALERT_COOLDOWN_MINUTES
         THEN [ok |-> TRUE, table |-> DictSet(d, key, t)]
         ELSE [ok |-> FALSE, table |-> DictSet(d, key, t)]

should_notify(opp, d, t) ==
    LET key == KeyOf(opp) IN
    IF key \notin DOMAIN d
    THEN [ok |-> TRUE, table |-> DictSet(d, key, t)]
    ELSE IF (t - d[key]) >= 60 * config.ALERT_COOLDOWN_MINUTES
         THEN [ok |-> TRUE, table |-> DictSet(d, key, t)]
         ELSE [ok |-> FALSE, table |-> d]

\* cleanup_old_notifications() at clock t on table d
cleanup_keeps_all(d, t) == d
cleanup_at_cooldown(d, t) ==
    LET keys_to_remove ==
            {k \in DOMAIN d : (t - d[k]) > 60 * config.ALERT_COOLDOWN_MINUTES}
    IN [k \in DOMAIN d \ keys_to_remove |-> d[k]]
cleanup_old_notifications(d, t) ==
    LET keys_to_remove == {k \in DOMAIN d : (t - d[k]) > RetentionSeconds}
    IN [k \in DOMAIN d \ keys_to_remove |-> d[k]]

(***************************************************************************)
(* arbitrage_analyzer.py: filter_notifications                             *)
(***************************************************************************)
\* [opp for opp in opportunities if should_notify(opp)], left to right
RECURSIVE NotifyLoop(_, _, _, _)
NotifyLoop(opps, i, d, t) ==
    IF i > Len(opps) THEN [list |-> <<>>, table |-> d]
    ELSE LET r == should_notify(opps[i], d, t)
             rest == NotifyLoop(opps, i + 1, r.table, t)
         IN [list |-> IF r.ok THEN <<opps[i]>> \o rest.list ELSE rest.list,
             table |-> rest.table]

Triple(opp) == <<opp.symbol, opp.buy_exchange, opp.sell_exchange>>

\* No call was made yet; the last call was not get_market_overview.
NoCall == [op |-> "none", stats |-> <<>>, table |-> <<>>]
NoOverview == [given |-> FALSE]

\* The counters and the cooldown table as a call finds them.
Entry(op) == [op |-> op, stats |-> session_stats, table |-> last_notifications]

\* The times at which each (symbol, buy, sell) was last in a returned list.
Logged(log, lst, t) ==
    LET ks == {Triple(lst[i]) : i \in DOMAIN lst}
    IN [k \in DOMAIN log \cup ks |-> IF k \in ks THEN t ELSE log[k]]

\* a filter that would count the accepted list before its truncation
FilterNotificationsCountsAccepted(t, opps) ==
    LET cleaned == cleanup_old_notifications(last_notifications, t)
        r == NotifyLoop(opps, 1, cleaned, t)
        limited == Slice(r.list, config.MAX_ALERTS_PER_CYCLE)
    IN /\ session_stats.alerts_sent + Len(r.list) <= MaxAlertsTotal
       /\ now' = t
       /\ before' = last_notifications
       /\ last_notifications' = r.table
       /\ opportunities' = opps
       /\ new_opportunities' = r.list
       /\ limited_opportunities' = limited
       /\ session_stats' = [session_stats EXCEPT !.alerts_sent = @ + Len(r.list)]
       /\ accept_before' = last_accept
       /\ last_accept' = Logged(last_accept, limited, t)
       /\ call' = Entry("filter")
       /\ returned' = [returned EXCEPT !.filter = @ + Len(limited)]
       /\ overview' = NoOverview
       /\ UNCHANGED <<config, price_data, raised, warnings>>

FilterNotifications(t, opps) ==
    LET cleaned == cleanup_old_notifications(last_notifications, t)
        r == NotifyLoop(opps, 1, cleaned, t)
        limited == Slice(r.list, config.MAX_ALERTS_PER_CYCLE)
    IN /\ session_stats.alerts_sent + Len(limited) <= MaxAlertsTotal
       /\ now' = t
       /\ before' = last_notifications
       /\ last_notifications' = r.table
       /\ opportunities' = opps
       /\ new_opportunities' = r.list
       /\ limited_opportunities' = limited
       /\ session_stats' =
            IF limited # <<>>
            THEN [session_stats EXCEPT !.alerts_sent = @ + Len(limited)]
            ELSE session_stats
       /\ accept_before' = last_accept
       /\ last_accept' = Logged(last_accept, limited, t)
       /\ call' = Entry("filter")
       /\ returned' = [returned EXCEPT !.filter = @ + Len(limited)]
       /\ overview' = NoOverview
       /\ UNCHANGED <<config, price_data, raised, warnings>>

(***************************************************************************)
(* data_models.py: PriceData (bid and ask are not read by the core)        *)
(***************************************************************************)
PriceData(symbol, exchange, price, volume_24h, timestamp) ==
    [symbol |-> symbol, exchange |-> exchange, price |-> price,
     volume_24h |-> volume_24h, timestamp |-> timestamp]

(***************************************************************************)
(* arbitrage_analyzer.py: analyze_arbitrage_opportunities                  *)
(***************************************************************************)
RECURSIVE Select(_, _, _)
\* [p for p in lst if p.<field> ...]: the elements at the positions in keep
Select(lst, keep, i) ==
    IF i > Len(lst) THEN <<>>
    ELSE (IF i \in keep THEN <<lst[i]>> ELSE <<>>) \o Select(lst, keep, i + 1)

SymbolsInOrderAll(lst, i) == [j \in 1..Len(lst) |-> lst[j].symbol]
\* keys of prices_by_symbol, in insertion order
RECURSIVE SymbolsInOrder(_, _)
SymbolsInOrder(lst, i) ==
    IF i > Len(lst) THEN <<>>
    ELSE IF \E j \in 1..(i - 1) : lst[j].symbol = lst[i].symbol
         THEN SymbolsInOrder(lst, i + 1)
         ELSE <<lst[i].symbol>> \o SymbolsInOrder(lst, i + 1)

PricesOf(lst, symbol) ==
    Select(lst, {i \in DOMAIN lst : lst[i].symbol = symbol}, 1)

\* valid_prices.sort(key=lambda x: x.price): stable, ascending
SortByPriceNone(lst) == lst
\* a sort that would put a sample before the earlier ones of the same price
RECURSIVE SortByPriceTiesReversed(_)
SortByPriceTiesReversed(lst) ==
    IF lst = <<>> THEN <<>>
    ELSE LET init == SortByPriceTiesReversed(SubSeq(lst, 1, Len(lst) - 1))
             x == lst[Len(lst)]
             k == Cardinality({i \in DOMAIN init : init[i].price < x.price})
         IN SubSeq(init, 1, k) \o <<x>> \o SubSeq(init, k + 1, Len(init))
RECURSIVE SortByPrice(_)
SortByPrice(lst) ==
    IF lst = <<>> THEN <<>>
    ELSE LET init == SortByPrice(SubSeq(lst, 1, Len(lst) - 1))
             x == lst[Len(lst)]
             k == Cardinality({i \in DOMAIN init : init[i].price <= x.price})
         IN SubSeq(init, 1, k) \o <<x>> \o SubSeq(init, k + 1, Len(init))

(***************************************************************************)
(* Python floats (IEEE 754 binary64, round to nearest, ties to even).      *)
(* A value is zero or (-1)^neg * M * 2^(e - 52) with a 53-bit M kept in     *)
(* three limbs, M = m2 * 2^36 + m1 * 2^18 + m0, 2^16 <= m2 < 2^17.  The    *)
(* operands of the model are integers below 2^12 in magnitude, for which   *)
(* no intermediate value leaves the range of the model's integers.         *)
(* Intermediate results are bound as the element of a one-element set, so  *)
(* that each is computed once.                                             *)
(***************************************************************************)
Limb == 2^18
TopLimb == 2^16
ZeroExp == 0 - 2^11

FloatZero == [neg |-> FALSE, e |-> ZeroExp, m2 |-> 0, m1 |-> 0, m0 |-> 0]

\* the element of a one-element set
Only(S) == CHOOSE v \in S : TRUE

\* the position of the highest set bit of n >= 1
RECURSIVE ILog2(_)
ILog2(n) == IF n < 2 THEN 0 ELSE 1 + ILog2(n \div 2)

\* the least s with a * 2^s >= b, for a >= 1
RECURSIVE ShiftUp(_, _)
ShiftUp(a, b) == IF a >= b THEN 0 ELSE 1 + ShiftUp(2 * a, b)

Abs(n) == IF n < 0 THEN 0 - n ELSE n

\* the mantissa one unit in the last place up
FloatNext(f) ==
    IF f.m0 + 1 < Limb THEN [f EXCEPT !.m0 = @ + 1]
    ELSE IF f.m1 + 1 < Limb THEN [f EXCEPT !.m0 = 0, !.m1 = @ + 1]
    ELSE IF f.m2 + 1 < 2 * TopLimb THEN [f EXCEPT !.m0 = 0, !.m1 = 0, !.m2 = @ + 1]
    ELSE [f EXCEPT !.m0 = 0, !.m1 = 0, !.m2 = TopLimb, !.e = @ + 1]

\* round to nearest, ties to even: rest is what was cut off, of a unit whole
FloatRound(f, rest, whole) ==
    IF 2 * rest > whole \/ (2 * rest = whole /\ f.m0 % 2 = 1)
    THEN FloatNext(f) ELSE f

\* float(n) for an integer n
FromInt(n) ==
    Only({ IF a = 0 THEN FloatZero
           ELSE [neg |-> n < 0, e |-> ILog2(a), m2 |-> a * 2^(16 - ILog2(a)),
                 m1 |-> 0, m0 |-> 0] : a \in {Abs(n)} })

\* N / D for 1 <= N / D < 2, times 2^e: the three limbs of the quotient,
\* then the rounding on the remainder
FloatDivDigits(N, D, e, neg) ==
    Only({ Only({ Only({
        FloatRound([neg |-> neg, e |-> e,
                    m2 |-> (n * TopLimb) \div d,
                    m1 |-> (r2 * Limb) \div d,
                    m0 |-> (r1 * Limb) \div d],
                   (r1 * Limb) % d, d)
        : r1 \in {(r2 * Limb) % d} })
        : r2 \in {(n * TopLimb) % d} })
        : n \in {N}, d \in {D} })

\* a / b for integers a, b >= 1: the quotient is in [2^e, 2^(e + 1))
FloatDivPos(a, b, neg) ==
    Only({ FloatDivDigits(IF a >= b THEN a ELSE a * 2^(0 - e),
                          IF a >= b THEN b * 2^e ELSE b, e, neg)
           : e \in {IF a >= b THEN ILog2(a \div b) ELSE 0 - ShiftUp(a, b)} })

\* x / y for integers x and y, y # 0
FloatDivInt(x, y) ==
    Only({ IF a = 0 THEN FloatZero ELSE FloatDivPos(Abs(a), Abs(b), (a < 0) # (b < 0))
           : a \in {x}, b \in {y} })

\* the product p2 * 2^36 + q1 * 2^18 + q0 cut to 53 bits and rounded
FloatCut(neg, e, p2, q1, q0) ==
    Only({ Only({
        FloatRound([neg |-> neg, e |-> e + sh,
                    m2 |-> p2 \div cut,
                    m1 |-> (p2 % cut) * (Limb \div cut) + q1 \div cut,
                    m0 |-> (q1 % cut) * (Limb \div cut) + q0 \div cut],
                   q0 % cut, cut)
        : cut \in {2^sh} })
        : sh \in {ILog2(p2) - 16} })

\* f * k for a float f and an integer k, 1 <= k < 2^7
FloatMulInt(f, k) ==
    Only({ IF g.m2 = 0 THEN FloatZero
           ELSE Only({ Only({
                    FloatCut(g.neg, g.e, g.m2 * k + p1 \div Limb, p1 % Limb, p0 % Limb)
                    : p1 \in {g.m1 * k + p0 \div Limb} })
                    : p0 \in {g.m0 * k} })
           : g \in {f} })

\* a > b for the magnitudes of two floats
MagGT(a, b) ==
    \/ a.e > b.e
    \/ a.e = b.e /\ a.m2 > b.m2
    \/ a.e = b.e /\ a.m2 = b.m2 /\ a.m1 > b.m1
    \/ a.e = b.e /\ a.m2 = b.m2 /\ a.m1 = b.m1 /\ a.m0 > b.m0

\* a > b, a >= b for two floats
FloatGT(a, b) ==
    Only({ IF u.neg = v.neg
           THEN IF u.neg THEN MagGT(v, u) ELSE MagGT(u, v)
           ELSE v.neg
           : u \in {a}, v \in {b} })
FloatGE(a, b) == ~ FloatGT(b, a)

\* a spread taken over the highest price instead of the lowest
PriceDifferenceOverMax(max_price, min_price) ==
    Only({ IF hi = 0 THEN FloatZero
           ELSE FloatMulInt(FloatDivInt(hi - lo, hi), 100)
           : hi \in {max_price}, lo \in {min_price} })
\* ((max - min) / min) * 100 in float arithmetic, for min # 0: the quotient
\* is rounded, then the product
PriceDifference(max_price, min_price) ==
    Only({ FloatMulInt(FloatDivInt(hi - lo, lo), 100)
           : hi \in {max_price}, lo \in {min_price} })

\* a >= b, a > b for a computed spread a and an integer b
QuotGEStrict(a, b) == FloatGT(a, FromInt(b))
QuotGE(a, b) == FloatGE(a, FromInt(b))
QuotGT(a, b) == FloatGT(a, FromInt(b))
\* a >= b for two computed spreads
QuotGEQ(a, b) == FloatGE(a, b)

\* timedelta.seconds of (t - timestamp): the seconds field, days left out
SecondsField(t, timestamp) == (t - timestamp) % 86400

SanityCap == 50
StaleSeconds == 300

\* _is_valid_opportunity: the answer and whether a warning was logged
is_valid_no_cap(buy_data, sell_data, price_difference, t) ==
    IF buy_data.exchange = sell_data.exchange
    THEN [ok |-> FALSE, warned |-> FALSE]
    ELSE IF SecondsField(t, buy_data.timestamp) > StaleSeconds
            \/ SecondsField(t, sell_data.timestamp) > StaleSeconds
    THEN [ok |-> FALSE, warned |-> FALSE]
    ELSE IF 2 * buy_data.volume_24h < 3 * config.MIN_VOLUME_USD
            \/ 2 * sell_data.volume_24h < 3 * config.MIN_VOLUME_USD
    THEN [ok |-> FALSE, warned |-> FALSE]
    ELSE IF buy_data.price <= 0 \/ sell_data.price <= 0
    THEN [ok |-> FALSE, warned |-> FALSE]
    ELSE [ok |-> TRUE, warned |-> FALSE]

is_valid_no_volume(buy_data, sell_data, price_difference, t) ==
    IF buy_data.exchange = sell_data.exchange
    THEN [ok |-> FALSE, warned |-> FALSE]
    ELSE IF SecondsField(t, buy_data.timestamp) > StaleSeconds
            \/ SecondsField(t, sell_data.timestamp) > StaleSeconds
    THEN [ok |-> FALSE, warned |-> FALSE]
    ELSE IF QuotGT(price_difference, SanityCap)
    THEN [ok |-> FALSE, warned |-> TRUE]
    ELSE IF buy_data.price <= 0 \/ sell_data.price <= 0
    THEN [ok |-> FALSE, warned |-> FALSE]
    ELSE [ok |-> TRUE, warned |-> FALSE]

is_valid_no_venue(buy_data, sell_data, price_difference, t) ==
    IF SecondsField(t, buy_data.timestamp) > StaleSeconds
            \/ SecondsField(t, sell_data.timestamp) > StaleSeconds
    THEN [ok |-> FALSE, warned |-> FALSE]
    ELSE IF 2 * buy_data.volume_24h < 3 * config.MIN_VOLUME_USD
            \/ 2 * sell_data.volume_24h < 3 * config.MIN_VOLUME_USD
    THEN [ok |-> FALSE, warned |-> FALSE]
    ELSE IF QuotGT(price_difference, SanityCap)
    THEN [ok |-> FALSE, warned |-> TRUE]
    ELSE IF buy_data.price <= 0 \/ sell_data.price <= 0
    THEN [ok |-> FALSE, warned |-> FALSE]
    ELSE [ok |-> TRUE, warned |-> FALSE]

is_valid_opportunity(buy_data, sell_data, price_difference, t) ==
    IF buy_data.exchange = sell_data.exchange
    THEN [ok |-> FALSE, warned |-> FALSE]
    ELSE IF SecondsField(t, buy_data.timestamp) > StaleSeconds
            \/ SecondsField(t, sell_data.timestamp) > StaleSeconds
    THEN [ok |-> FALSE, warned |-> FALSE]
    \* volume_24h < MIN_VOLUME_USD * 1.5
    ELSE IF 2 * buy_data.volume_24h < 3 * config.MIN_VOLUME_USD
            \/ 2 * sell_data.volume_24h < 3 * config.MIN_VOLUME_USD
    THEN [ok |-> FALSE, warned |-> FALSE]
    ELSE IF QuotGT(price_difference, SanityCap)
    THEN [ok |-> FALSE, warned |-> TRUE]
    ELSE IF buy_data.price <= 0 \/ sell_data.price <= 0
    THEN [ok |-> FALSE, warned |-> FALSE]
    ELSE [ok |-> TRUE, warned |-> FALSE]

NoResult == [raised |-> "none", list |-> <<>>, warnings |-> <<>>]

\* _analyze_symbol without the volume filter and the liquidity margin
analyze_symbol_unfiltered(symbol, prices, t) ==
    IF Len(prices) < 2 THEN NoResult
    ELSE LET sorted == SortByPrice(prices)
             min_price_data == sorted[1]
             max_price_data == sorted[Len(sorted)]
         IN IF min_price_data.price = 0
            THEN [NoResult EXCEPT !.raised = "ZeroDivisionError"]
            ELSE Only({
                    LET v == is_valid_no_volume(min_price_data, max_price_data,
                                             price_difference, t)
                 IN IF ~ QuotGE(price_difference, config.PRICE_DIFFERENCE_THRESHOLD)
                    THEN NoResult
                    ELSE [raised |-> "none",
                          list |-> IF v.ok
                                   THEN << ArbitrageOpportunity(
                                             symbol,
                                             min_price_data.exchange,
                                             max_price_data.exchange,
                                             min_price_data.price,
                                             max_price_data.price,
                                             price_difference,
                                             Min2(min_price_data.volume_24h,
                                                  max_price_data.volume_24h),
                                             t) >>
                                   ELSE <<>>,
                          warnings |-> IF v.warned THEN <<symbol>> ELSE <<>>]
                    : price_difference \in
                        {PriceDifference(max_price_data.price, min_price_data.price)} })

\* _analyze_symbol(symbol, prices) at clock t
analyze_symbol(symbol, prices, t) ==
    LET valid_prices ==
            Select(prices,
                   {i \in DOMAIN prices : prices[i].volume_24h >= config.MIN_VOLUME_USD},
                   1)
    IN IF Len(valid_prices) < 2 THEN NoResult
       ELSE LET sorted == SortByPrice(valid_prices)
                min_price_data == sorted[1]
                max_price_data == sorted[Len(sorted)]
            IN IF min_price_data.price = 0
               THEN [NoResult EXCEPT !.raised = "ZeroDivisionError"]
               ELSE Only({
                       LET v == is_valid_opportunity(min_price_data, max_price_data,
                                                  price_difference, t)
                    IN IF ~ QuotGE(price_difference, config.PRICE_DIFFERENCE_THRESHOLD)
                       THEN NoResult
                       ELSE [raised |-> "none",
                             list |-> IF v.ok
                                      THEN << ArbitrageOpportunity(
                                                symbol,
                                                min_price_data.exchange,
                                                max_price_data.exchange,
                                                min_price_data.price,
                                                max_price_data.price,
                                                price_difference,
                                                Min2(min_price_data.volume_24h,
                                                     max_price_data.volume_24h),
                                                t) >>
                                      ELSE <<>>,
                             warnings |-> IF v.warned THEN <<symbol>> ELSE <<>>]
                       : price_difference \in
                           {PriceDifference(max_price_data.price, min_price_data.price)} })

\* opportunities.sort(key=price_difference_percent, reverse=True): stable
SortBySpreadNone(lst) == lst
RECURSIVE SortBySpreadDesc(_)
SortBySpreadDesc(lst) ==
    IF lst = <<>> THEN <<>>
    ELSE LET init == SortBySpreadDesc(SubSeq(lst, 1, Len(lst) - 1))
             x == lst[Len(lst)]
             k == Cardinality({i \in DOMAIN init :
                        QuotGEQ(init[i].price_difference_percent,
                                x.price_difference_percent)})
         IN SubSeq(init, 1, k) \o <<x>> \o SubSeq(init, k + 1, Len(init))

\* the loop over prices_by_symbol.items(); an exception ends it
RECURSIVE SymbolLoop(_, _, _, _)
SymbolLoop(lst, keys, i, t) ==
    IF i > Len(keys) THEN NoResult
    ELSE LET prices == PricesOf(lst, keys[i]) IN
         IF Len(prices) < 2 THEN SymbolLoop(lst, keys, i + 1, t)
         ELSE LET r == analyze_symbol(keys[i], prices, t) IN
              IF r.raised # "none" THEN r
              ELSE LET rest == SymbolLoop(lst, keys, i + 1, t) IN
                   [raised |-> rest.raised,
                    list |-> r.list \o rest.list,
                    warnings |-> r.warnings \o rest.warnings]

\* analyze_arbitrage_opportunities(price_data) at clock t: the returned list,
\* or the exception that escapes, and the warnings logged on the way
analyze_arbitrage_opportunities(lst, t) ==
    Only({ IF r.raised # "none" THEN [r EXCEPT !.list = <<>>]
           ELSE [r EXCEPT !.list = SortBySpreadDesc(r.list)]
           : r \in {SymbolLoop(lst, SymbolsInOrder(lst, 1), 1, t)} })

MaxFoundTotal == 4

Analyze(lst) ==
    \E r \in {analyze_arbitrage_opportunities(lst, now)} :
    /\ session_stats.total_opportunities_found + Len(r.list) <= MaxFoundTotal
    /\ price_data' = lst
    /\ raised' = r.raised
    /\ warnings' = r.warnings
    /\ opportunities' = r.list
    /\ session_stats' =
         IF r.raised = "none"
         THEN [session_stats EXCEPT !.total_opportunities_found = @ + Len(r.list)]
         ELSE session_stats
    /\ call' = Entry("analyze")
    /\ returned' =
         IF r.raised = "none"
         THEN [returned EXCEPT !.analyze = @ + Len(r.list)]
         ELSE returned
    /\ overview' = NoOverview
    /\ UNCHANGED <<config, now, last_notifications, gateVars>>

(***************************************************************************)
(* arbitrage_analyzer.py: get_market_overview                              *)
(***************************************************************************)
\* a > b for two quotients
QuotGTQ(a, b) == FloatGT(a, b)

\* min(prices, key=lambda x: x.price): the first of the lowest-priced
RECURSIVE MinByPrice(_, _, _)
MinByPrice(prices, i, best) ==
    IF i > Len(prices) THEN best
    ELSE MinByPrice(prices, i + 1,
                    IF prices[i].price < best.price THEN prices[i] ELSE best)

\* max(prices, key=lambda x: x.price): the first of the highest-priced
RECURSIVE MaxByPrice(_, _, _)
MaxByPrice(prices, i, best) ==
    IF i > Len(prices) THEN best
    ELSE MaxByPrice(prices, i + 1,
                    IF prices[i].price > best.price THEN prices[i] ELSE best)

\* for price in prices: exchange_counts[price.exchange] += 1
RECURSIVE CountExchanges(_, _, _)
CountExchanges(prices, i, counts) ==
    IF i > Len(prices) THEN counts
    ELSE LET e == prices[i].exchange IN
         CountExchanges(prices, i + 1,
                        DictSet(counts, e,
                                (IF e \in DOMAIN counts THEN counts[e] ELSE 0) + 1))

\* The locals of get_market_overview before its loop.
OverviewStart ==
    [raised |-> "none",
     symbols_with_arbitrage |-> 0,
     max_spread |-> FromInt(0),
     best_opportunity |-> [symbol |-> "None"],
     exchange_counts |-> <<>>]

\* One pass of the loop over symbols_data.items(); a mutant uses
\* OverviewStepGated, which leaves out the symbols under a cooldown entry.
OverviewStepGated(acc, symbol, prices) ==
    LET min_price == MinByPrice(prices, 2, prices[1])
        max_price == MaxByPrice(prices, 2, prices[1])
        counted == [acc EXCEPT !.exchange_counts =
                        CountExchanges(prices, 1, acc.exchange_counts)]
    IN IF min_price.price = 0
       THEN [counted EXCEPT !.raised = "ZeroDivisionError"]
       ELSE Only({
            IF ~ QuotGE(spread, config.PRICE_DIFFERENCE_THRESHOLD)
               \/ \E k \in DOMAIN last_notifications :
                      k = symbol \o "_" \o min_price.exchange
                                 \o "_" \o max_price.exchange
            THEN counted
            ELSE IF QuotGTQ(spread, acc.max_spread)
            THEN [counted EXCEPT
                    !.symbols_with_arbitrage = @ + 1,
                    !.max_spread = spread,
                    !.best_opportunity =
                        [symbol |-> symbol,
                         buy_exchange |-> min_price.exchange,
                         sell_exchange |-> max_price.exchange,
                         spread |-> spread]]
            ELSE [counted EXCEPT !.symbols_with_arbitrage = @ + 1]
            : spread \in {PriceDifference(max_price.price, min_price.price)} })

OverviewStep(acc, symbol, prices) ==
    LET min_price == MinByPrice(prices, 2, prices[1])
        max_price == MaxByPrice(prices, 2, prices[1])
        counted == [acc EXCEPT !.exchange_counts =
                        CountExchanges(prices, 1, acc.exchange_counts)]
    IN IF min_price.price = 0
       THEN [counted EXCEPT !.raised = "ZeroDivisionError"]
       ELSE Only({
            IF ~ QuotGE(spread, config.PRICE_DIFFERENCE_THRESHOLD)
            THEN counted
            ELSE IF QuotGTQ(spread, acc.max_spread)
            THEN [counted EXCEPT
                    !.symbols_with_arbitrage = @ + 1,
                    !.max_spread = spread,
                    !.best_opportunity =
                        [symbol |-> symbol,
                         buy_exchange |-> min_price.exchange,
                         sell_exchange |-> max_price.exchange,
                         spread |-> spread]]
            ELSE [counted EXCEPT !.symbols_with_arbitrage = @ + 1]
            : spread \in {PriceDifference(max_price.price, min_price.price)} })

\* the loop over symbols_data.items(); an exception ends it
RECURSIVE OverviewLoop(_, _, _, _)
OverviewLoop(lst, keys, i, acc) ==
    IF i > Len(keys) THEN acc
    ELSE LET prices == PricesOf(lst, keys[i]) IN
         IF Len(prices) < 2 THEN OverviewLoop(lst, keys, i + 1, acc)
         ELSE Only({ IF next.raised # "none" THEN next
                     ELSE OverviewLoop(lst, keys, i + 1, next)
                     : next \in {OverviewStep(acc, keys[i], prices)} })

\* get_market_overview(price_data): the returned dict, or the exception
get_market_overview(lst) ==
    LET keys == SymbolsInOrder(lst, 1)
        total_symbols == Len(keys)
        acc == OverviewLoop(lst, keys, 1, OverviewStart)
    IN IF acc.raised # "none"
       THEN [given |-> TRUE, price_data |-> lst, raised |-> acc.raised]
       ELSE [given |-> TRUE, price_data |-> lst, raised |-> "none",
             timestamp |-> now,
             total_symbols_monitored |-> total_symbols,
             symbols_with_arbitrage |-> acc.symbols_with_arbitrage,
             arbitrage_percentage |->
                 IF total_symbols > 0
                 THEN FloatMulInt(FloatDivInt(acc.symbols_with_arbitrage,
                                              total_symbols), 100)
                 ELSE FromInt(0),
             max_spread_found |-> acc.max_spread,
             best_opportunity |-> acc.best_opportunity,
             exchanges_data_count |-> acc.exchange_counts,
             session_stats |-> session_stats,
             notification_stats |->
                 [active_cooldowns |-> Cardinality(DOMAIN last_notifications),
                  cooldown_minutes |-> config.ALERT_COOLDOWN_MINUTES]]

GetMarketOverview(lst) ==
    /\ overview' = get_market_overview(lst)
    /\ call' = Entry("overview")
    /\ UNCHANGED <<coreVars, analyzeVars, gateVars, returned>>

(***************************************************************************)
(* The gate driven by arbitrary opportunity lists at non-decreasing times. *)
(***************************************************************************)
GateOpps ==
    { ArbitrageOpportunity("X", "A", "B", 2, 3, PriceDifference(3, 2), 3, 0),
      ArbitrageOpportunity("X", "B", "A", 3, 4, PriceDifference(4, 3), 3, 0) }

\* Defaults of simple_config.py, with MIN_VOLUME_USD scaled to the model's volumes.
DefaultThreshold == 10
DefaultCooldown == 30
DefaultMaxAlerts == 5
DefaultUpdateInterval == 60
\* MIN_VOLUME_USD on the scale of the model's volumes (1, 2, 3)
MinVolumeChoices == {2}

GateConfigs ==
    [PRICE_DIFFERENCE_THRESHOLD : {DefaultThreshold},
     MIN_VOLUME_USD : MinVolumeChoices,
     UPDATE_INTERVAL : {DefaultUpdateInterval},
     ALERT_COOLDOWN_MINUTES : CooldownChoices,
     MAX_ALERTS_PER_CYCLE : MaxAlertsChoices]

InitStats ==
    [cycles_completed |-> 0, total_opportunities_found |-> 0, alerts_sent |-> 0]

\* The state after ArbitrageAnalyzer(config) is constructed.
Constructed ==
    /\ now = 0
    /\ last_notifications = <<>>
    /\ session_stats = InitStats
    /\ pc = "idle"
    /\ price_data = <<>>
    /\ raised = "none"
    /\ warnings = <<>>
    /\ opportunities = <<>>
    /\ new_opportunities = <<>>
    /\ limited_opportunities = <<>>
    /\ before = <<>>
    /\ last_accept = <<>>
    /\ accept_before = <<>>
    /\ is_running = FALSE
    /\ stop_signalled = FALSE
    /\ cycle_count = 0
    /\ cycle_start = 0
    /\ symbols = <<>>
    /\ symbol_index = 0
    /\ dispatched = <<>>
    /\ dispatched_at = 0
    /\ last_sent = <<>>
    /\ sent_before = <<>>
    /\ call = NoCall
    /\ returned = [analyze |-> 0, filter |-> 0, dispatch |-> 0]
    /\ overview = NoOverview
    /\ iterations = [skipped |-> 0, aborted |-> 0, interrupted |-> 0, finished |-> 0]

InitGate ==
    /\ config \in GateConfigs
    /\ Constructed

NextGate ==
    \E d \in TimeSteps :
        /\ now + d <= MaxTime
        /\ \E opps \in SeqsUpTo(GateOpps, MaxOpps) :
              FilterNotifications(now + d, opps)
        /\ UNCHANGED <<pc, loopVars, sendVars, iterations>>

SpecGate == InitGate /\ [][NextGate]_vars

(***************************************************************************)
(* The gate driven by opportunities whose names contain the separator of   *)
(* the key.                                                                *)
(***************************************************************************)
KeyOpps ==
    { ArbitrageOpportunity("X_A", "B", "C", 2, 3, PriceDifference(3, 2), 3, 0),
      ArbitrageOpportunity("X", "A_B", "C", 2, 3, PriceDifference(3, 2), 3, 0),
      ArbitrageOpportunity("X", "A", "B", 2, 3, PriceDifference(3, 2), 3, 0) }

InitKeys ==
    /\ config \in GateConfigs
    /\ Constructed

NextKeys ==
    \E d \in TimeSteps :
        /\ now + d <= MaxTime
        /\ \E opps \in SeqsUpTo(KeyOpps, MaxOpps) :
              FilterNotifications(now + d, opps)
        /\ UNCHANGED <<pc, loopVars, sendVars, iterations>>

SpecKeys == InitKeys /\ [][NextKeys]_vars

(***************************************************************************)
(* The analyzer applied once to an arbitrary batch of samples.             *)
(***************************************************************************)
Symbols == {"X", "Y", "Z"}
Exchanges == {"A", "B"}
Prices == {0, 2, 3, 4}
ThresholdChoices == {5, 10, 29, 50}

\* Samples with enough volume, observed at the analysis time.
PlainSamples ==
    {PriceData("X", e, p, 3, 0) : e \in Exchanges, p \in Prices}
        \cup {PriceData("Y", "A", 2, 3, 0), PriceData("Y", "B", 3, 3, 0)}

\* Samples with too little volume (below MIN_VOLUME_USD, below 1.5 times it),
\* or observed 301 s ago, a day and 10 s ago, or 10 s after the analysis time,
\* or with a negative price.
OddSamples ==
    {PriceData("X", "A", p, va[1], 0 - va[2]) :
        p \in {2, 4},
        va \in {<<1, 0>>, <<2, 0>>, <<3, 301>>, <<3, 86410>>, <<3, 0 - 10>>}}
        \cup {PriceData("X", "B", 0 - 2, 3, 0)}

Samples == PlainSamples \cup OddSamples

\* Fresh, liquid samples of three instruments on two venues each, with
\* spreads of 6 %, 50 % and 33.3 %.
LiquidSamples ==
    {PriceData("X", "A", 100, 3, 0), PriceData("X", "B", 106, 3, 0),
     PriceData("Y", "A", 2, 3, 0), PriceData("Y", "B", 3, 3, 0),
     PriceData("Z", "A", 3, 3, 0), PriceData("Z", "B", 4, 3, 0)}

AnalyzerConfigs ==
    [PRICE_DIFFERENCE_THRESHOLD : ThresholdChoices,
     MIN_VOLUME_USD : MinVolumeChoices,
     UPDATE_INTERVAL : {DefaultUpdateInterval},
     ALERT_COOLDOWN_MINUTES : {DefaultCooldown},
     MAX_ALERTS_PER_CYCLE : {DefaultMaxAlerts}]

\* Two liquid samples at 100 and 129: (129 - 100) / 100 is rounded to
\* 0.29 and 0.29 * 100 to the float just below 29.
BoundarySamples ==
    {PriceData("X", "A", 100, 3, 0), PriceData("X", "B", 129, 3, 0)}

InitAnalyzer ==
    /\ config \in AnalyzerConfigs
    /\ Constructed

\* One call on a short batch of any samples.
AnalyzeSamples ==
    /\ pc = "idle"
    /\ \E lst \in SeqsUpTo(Samples, MaxBatch) :
        /\ pc' = "analyzed"
        /\ Analyze(lst)
        /\ UNCHANGED <<loopVars, sendVars, iterations>>

\* One call on a longer batch of liquid samples of several instruments,
\* each sample given at most once, in any order.
AnalyzeLiquid ==
    /\ pc = "idle"
    /\ \E lst \in Arrangements(LiquidSamples, MaxLiquidBatch) :
        /\ pc' = "analyzed"
        /\ Analyze(lst)
        /\ UNCHANGED <<loopVars, sendVars, iterations>>

\* One call on a pair of samples whose spread is 29 % and is computed as
\* 28.999999999999996.
AnalyzeBoundary ==
    /\ pc = "idle"
    /\ \E lst \in Arrangements(BoundarySamples, 2) :
        /\ pc' = "analyzed"
        /\ Analyze(lst)
        /\ UNCHANGED <<loopVars, sendVars, iterations>>

\* One get_market_overview call on a batch of several instruments.
OverviewLiquid ==
    /\ pc = "idle"
    /\ \E lst \in Arrangements(LiquidSamples, MaxLiquidBatch) :
        /\ pc' = "analyzed"
        /\ GetMarketOverview(lst)
        /\ UNCHANGED <<loopVars, sendVars, iterations>>

NextAnalyzer == AnalyzeSamples \/ AnalyzeLiquid \/ AnalyzeBoundary \/ OverviewLiquid

SpecAnalyzer == InitAnalyzer /\ [][NextAnalyzer]_vars

(***************************************************************************)
(* The analyzer object under any sequence of calls at non-decreasing       *)
(* times: analyze on a batch, filter on the list analyze returned last,    *)
(* get_market_overview on the batch analyzed last.                         *)
(***************************************************************************)
MaxCoreBatch == 2

\* Amounts by which the clock moves between two calls.
CoreSteps == {120 * 60}

\* Fresh, liquid samples of one instrument stamped t: a spread of 50 %.
CoreSamples(t) ==
    {PriceData("X", "A", 2, 3, t), PriceData("X", "B", 3, 3, t)}

CoreConfigs ==
    [PRICE_DIFFERENCE_THRESHOLD : {DefaultThreshold},
     MIN_VOLUME_USD : MinVolumeChoices,
     UPDATE_INTERVAL : {DefaultUpdateInterval},
     ALERT_COOLDOWN_MINUTES : {120},
     MAX_ALERTS_PER_CYCLE : {0, 1}]

InitCore ==
    /\ config \in CoreConfigs
    /\ Constructed

\* Time passes between two calls.
CoreTick ==
    /\ \E d \in CoreSteps :
         /\ now + d <= MaxTime
         /\ now' = now + d
    /\ UNCHANGED <<config, last_notifications, session_stats, pc, analyzeVars,
                   gateVars, loopVars, sendVars, callVars, iterations>>

\* analyze_arbitrage_opportunities on a batch of samples taken now
CoreAnalyze ==
    /\ \E lst \in SeqsUpTo(CoreSamples(now), MaxCoreBatch) : Analyze(lst)
    /\ UNCHANGED <<pc, loopVars, sendVars, iterations>>

\* filter_notifications on the list the analyzer returned last
CoreFilter ==
    /\ FilterNotifications(now, opportunities)
    /\ UNCHANGED <<pc, loopVars, sendVars, iterations>>

\* get_market_overview on the batch that was analyzed last
CoreOverview ==
    /\ GetMarketOverview(price_data)
    /\ UNCHANGED <<pc, loopVars, sendVars, iterations>>

NextCore == CoreTick \/ CoreAnalyze \/ CoreFilter \/ CoreOverview

SpecCore == InitCore /\ [][NextCore]_vars

(***************************************************************************)
(* main.py and exchange_manager.py: the running system.                    *)
(* run() initializes, loops in monitoring_cycle() and ends in shutdown();  *)
(* each cycle fetches, analyzes and dispatches symbol by symbol.  The      *)
(* steps are cut at the awaits, where the stop signal can come in.         *)
(***************************************************************************)
MaxCycles == 2

\* What get_monitoring_symbols may return ("X/USDT" shortened to "X").
SymbolLists == {<<>>, <<"X">>, <<"X", "Y">>}

\* Seconds the ticker requests of one symbol may take.
FetchSeconds == {0, 90}

\* fetch_ticker_data(exchange, symbol) at clock t: None (an error, no such
\* market, too little volume) or a sample stamped t.
TickerResults(symbol, exchange, t) ==
    {<<>>} \cup {<<PriceData(symbol, exchange, p, 3, t)>> : p \in {0, 2, 3}}

SystemConfigs ==
    [PRICE_DIFFERENCE_THRESHOLD : {DefaultThreshold},
     MIN_VOLUME_USD : MinVolumeChoices,
     UPDATE_INTERVAL : {DefaultUpdateInterval},
     ALERT_COOLDOWN_MINUTES : {DefaultCooldown},
     MAX_ALERTS_PER_CYCLE : {DefaultMaxAlerts}]

\* run(): initialize() succeeded, is_running = True
Initialize ==
    /\ pc = "start"
    /\ is_running' = TRUE
    /\ pc' = "loop"
    /\ UNCHANGED <<coreVars, analyzeVars, gateVars, stop_signalled, cycle_count,
                   cycle_start, symbols, symbol_index, sendVars, callVars,
                   iterations>>

\* run(): initialize() raised; the finally clause runs shutdown()
InitializeFails ==
    /\ pc = "start"
    /\ pc' = "shutdown"
    /\ UNCHANGED <<coreVars, analyzeVars, gateVars, loopVars, sendVars, callVars, iterations>>

\* signal_handler: installed by main() before run() is entered and in place
\* until main() returns, it can run while initialize() is under way, during
\* the loop, and during and after shutdown()
StopSignal ==
    /\ pc \in {"start", "loop", "cycle", "exchanges", "symbols", "no_symbols",
               "fetch", "analyze", "networks", "dispatch", "cycle_end", "sleep",
               "handler", "shutdown", "stopped"}
    /\ is_running \/ ~ stop_signalled
    /\ is_running' = FALSE
    /\ stop_signalled' = TRUE
    /\ UNCHANGED <<coreVars, pc, analyzeVars, gateVars, cycle_count, cycle_start,
                   symbols, symbol_index, sendVars, callVars, iterations>>

\* while self.is_running: the test passes
EnterCycle ==
    /\ pc = "loop"
    /\ is_running
    /\ cycle_count < MaxCycles
    /\ pc' = "cycle"
    /\ UNCHANGED <<coreVars, analyzeVars, gateVars, loopVars, sendVars, callVars,
                   iterations>>

\* cycle_start = datetime.now(); cycle_count += 1
StartCycle ==
    /\ pc = "cycle"
    /\ cycle_start' = now
    /\ cycle_count' = cycle_count + 1
    /\ pc' = "exchanges"
    /\ UNCHANGED <<coreVars, analyzeVars, gateVars, is_running, stop_signalled,
                   symbols, symbol_index, sendVars, callVars, iterations>>

\* await self.exchange_manager.initialize_exchanges() returns
InitializeExchanges ==
    /\ pc = "exchanges"
    /\ pc' = "symbols"
    /\ UNCHANGED <<coreVars, analyzeVars, gateVars, loopVars, sendVars, callVars,
                   iterations>>

\* initialize_exchanges() raises: getattr(ccxt, name) and the constructor of
\* the client are inside no try
InitializeExchangesRaises ==
    /\ pc = "exchanges"
    /\ raised' = "Exception"
    /\ pc' = "handler"
    /\ UNCHANGED <<coreVars, price_data, warnings, opportunities, gateVars,
                   loopVars, sendVars, callVars, iterations>>

\* symbols = await self.get_monitoring_symbols(); if not symbols: ...
GetMonitoringSymbols ==
    /\ pc = "symbols"
    /\ \E got \in SymbolLists :
         /\ symbols' = got
         /\ IF got = <<>>
            THEN /\ pc' = "no_symbols"
                 /\ symbol_index' = 0
            ELSE /\ pc' = "fetch"
                 /\ symbol_index' = 1
    /\ UNCHANGED <<coreVars, analyzeVars, gateVars, is_running, stop_signalled,
                   cycle_count, cycle_start, sendVars, callVars, iterations>>

\* if not symbols: await asyncio.sleep(60); continue
SleepNoSymbols ==
    /\ pc = "no_symbols"
    /\ now' = now + 60
    /\ pc' = "loop"
    /\ iterations' = [iterations EXCEPT !.skipped = @ + 1]
    /\ UNCHANGED <<config, last_notifications, session_stats, analyzeVars,
                   gateVars, loopVars, sendVars, callVars>>

\* except KeyboardInterrupt: break.  A call made inside the try raises
\* KeyboardInterrupt (raised in the handler it leaves monitoring_cycle and is
\* caught in run()); either way run() goes to its finally clause.  The calls
\* that can raise after fetch_all_tickers come after update_session_stats().
\* At the dispatch the raising call is the posting of an alert, inside
\* send_arbitrage_alerts, which an empty list never reaches: the list was
\* handed over by then.
KeyboardInterruptBreak ==
    /\ pc \in {"exchanges", "symbols", "no_symbols", "fetch", "networks",
               "dispatch", "sleep", "handler"}
    /\ pc = "dispatch" => opportunities # <<>>
    /\ pc' = "shutdown"
    /\ IF pc = "dispatch"
       THEN /\ dispatched' = opportunities
            /\ dispatched_at' = now
            /\ sent_before' = last_sent
            /\ last_sent' = Logged(last_sent, opportunities, now)
            /\ returned' = [returned EXCEPT !.dispatch = @ + Len(opportunities)]
       ELSE UNCHANGED <<sendVars, returned>>
    /\ price_data' = <<>>
    /\ opportunities' = <<>>
    /\ raised' = "none"
    /\ iterations' = [iterations EXCEPT !.interrupted = @ + 1]
    /\ UNCHANGED <<coreVars, warnings, gateVars, loopVars, call, overview>>

\* the loop condition is false: monitoring_cycle returns, run() goes to finally
ExitLoop ==
    /\ pc = "loop"
    /\ ~ is_running
    /\ pc' = "shutdown"
    /\ UNCHANGED <<coreVars, analyzeVars, gateVars, loopVars, sendVars, callVars, iterations>>

\* fetch_all_tickers: results = await asyncio.gather(...) for one symbol
FetchTickers ==
    /\ pc = "fetch"
    /\ \E d \in FetchSeconds :
         /\ now' = now + d
         /\ \E a \in TickerResults(symbols[symbol_index], "A", now + d),
               b \in TickerResults(symbols[symbol_index], "B", now + d) :
              price_data' = a \o b
    /\ pc' = "analyze"
    /\ UNCHANGED <<config, last_notifications, session_stats, raised, warnings,
                   opportunities, gateVars, loopVars, sendVars, callVars, iterations>>

\* fetch_all_tickers: opportunities = analyze_arbitrage_opportunities(all_price_data)
AnalyzeTickers ==
    /\ pc = "analyze"
    /\ Analyze(price_data)
    /\ pc' = IF raised' = "none" THEN "networks" ELSE "handler"
    /\ UNCHANGED <<loopVars, sendVars, iterations>>

\* fetch_all_tickers: the get_currency_networks lookups of the opportunities
NetworksFound ==
    /\ pc = "networks"
    /\ pc' = "dispatch"
    /\ UNCHANGED <<coreVars, analyzeVars, gateVars, loopVars, sendVars, callVars, iterations>>

\* a get_currency_networks lookup raises: fetch_all_tickers is left
NetworksRaise ==
    /\ pc = "networks"
    /\ opportunities # <<>>
    /\ raised' = "NetworkLookupError"
    /\ pc' = "handler"
    /\ UNCHANGED <<coreVars, price_data, warnings, opportunities, gateVars,
                   loopVars, sendVars, callVars, iterations>>

\* fetch_all_tickers: await telegram_notifier.send_arbitrage_alerts(opportunities)
SendArbitrageAlerts ==
    /\ pc = "dispatch"
    /\ dispatched' = opportunities
    /\ dispatched_at' = now
    /\ sent_before' = last_sent
    /\ last_sent' = Logged(last_sent, opportunities, now)
    /\ IF symbol_index < Len(symbols)
       THEN /\ symbol_index' = symbol_index + 1
            /\ pc' = "fetch"
            /\ iterations' = iterations
       ELSE /\ symbol_index' = symbol_index
            /\ pc' = "cycle_end"
            \* fetch_all_tickers returns
            /\ iterations' = [iterations EXCEPT !.finished = @ + 1]
    \* the loop body ends: its locals are gone
    /\ price_data' = <<>>
    /\ opportunities' = <<>>
    /\ returned' = [returned EXCEPT !.dispatch = @ + Len(opportunities)]
    /\ UNCHANGED <<coreVars, raised, warnings, gateVars, is_running,
                   stop_signalled, cycle_count, cycle_start, symbols, call,
                   overview>>

\* monitoring_cycle: self.arbitrage_analyzer.update_session_stats()
EndCycle ==
    /\ pc = "cycle_end"
    /\ session_stats' = [session_stats EXCEPT !.cycles_completed = @ + 1]
    /\ pc' = "sleep"
    /\ UNCHANGED <<config, now, last_notifications, analyzeVars, gateVars, loopVars,
                   sendVars, callVars, iterations>>

\* monitoring_cycle: the cycle's duration is taken and logged, then the loop
\* sleeps for what is left of UPDATE_INTERVAL
SleepToNextCycle ==
    /\ pc = "sleep"
    /\ now' = now + Max2(0, config.UPDATE_INTERVAL - (now - cycle_start))
    /\ pc' = "loop"
    /\ UNCHANGED <<config, last_notifications, session_stats, analyzeVars, gateVars,
                   loopVars, sendVars, callVars, iterations>>

\* an exception handler that would count the aborted iteration as completed
HandleErrorCounts ==
    /\ pc = "handler"
    /\ now' = now + 30
    /\ pc' = "loop"
    /\ price_data' = <<>>
    /\ opportunities' = <<>>
    /\ raised' = "none"
    /\ iterations' = [iterations EXCEPT !.aborted = @ + 1]
    /\ session_stats' = [session_stats EXCEPT !.cycles_completed = @ + 1]
    /\ UNCHANGED <<config, last_notifications, warnings,
                   gateVars, loopVars, sendVars, callVars>>

\* monitoring_cycle: except Exception: send_system_message, sleep(30)
HandleError ==
    /\ pc = "handler"
    /\ now' = now + 30
    /\ pc' = "loop"
    \* fetch_all_tickers was left: its locals and the exception are gone
    /\ price_data' = <<>>
    /\ opportunities' = <<>>
    /\ raised' = "none"
    /\ iterations' = [iterations EXCEPT !.aborted = @ + 1]
    /\ UNCHANGED <<config, last_notifications, session_stats, warnings,
                   gateVars, loopVars, sendVars, callVars>>

\* shutdown()
Shutdown ==
    /\ pc = "shutdown"
    /\ is_running' = FALSE
    /\ pc' = "stopped"
    /\ UNCHANGED <<coreVars, analyzeVars, gateVars, stop_signalled, cycle_count,
                   cycle_start, symbols, symbol_index, sendVars, callVars,
                   iterations>>

Init ==
    /\ config \in SystemConfigs
    /\ now = 0
    /\ last_notifications = <<>>
    /\ session_stats = InitStats
    /\ pc = "start"
    /\ price_data = <<>>
    /\ raised = "none"
    /\ warnings = <<>>
    /\ opportunities = <<>>
    /\ new_opportunities = <<>>
    /\ limited_opportunities = <<>>
    /\ before = <<>>
    /\ last_accept = <<>>
    /\ accept_before = <<>>
    /\ is_running = FALSE
    /\ stop_signalled = FALSE
    /\ cycle_count = 0
    /\ cycle_start = 0
    /\ symbols = <<>>
    /\ symbol_index = 0
    /\ dispatched = <<>>
    /\ dispatched_at = 0
    /\ last_sent = <<>>
    /\ sent_before = <<>>
    /\ call = NoCall
    /\ returned = [analyze |-> 0, filter |-> 0, dispatch |-> 0]
    /\ overview = NoOverview
    /\ iterations = [skipped |-> 0, aborted |-> 0, interrupted |-> 0, finished |-> 0]

Next ==
    \/ Initialize
    \/ InitializeFails
    \/ StopSignal
    \/ EnterCycle
    \/ StartCycle
    \/ InitializeExchanges
    \/ InitializeExchangesRaises
    \/ GetMonitoringSymbols
    \/ SleepNoSymbols
    \/ KeyboardInterruptBreak
    \/ ExitLoop
    \/ FetchTickers
    \/ AnalyzeTickers
    \/ NetworksFound
    \/ NetworksRaise
    \/ SendArbitrageAlerts
    \/ EndCycle
    \/ SleepToNextCycle
    \/ HandleError
    \/ Shutdown

Spec == Init /\ [][Next]_vars

(***************************************************************************)
(* The spread of a pair of prices, (sell - buy) / buy * 100, evaluated in  *)
(* float arithmetic as the properties below recompute it, for buy # 0.     *)
(***************************************************************************)
SpreadOf(buy_price, sell_price) ==
    FloatMulInt(FloatDivInt(sell_price - buy_price, buy_price), 100)

(***************************************************************************)
(* Properties of the analyzer object under any calls (SpecCore).           *)
(***************************************************************************)
\* C21: a call to analyze leaves the session counters and the cooldown
\* table as it found them.
C21_AnalyzeChangesNothing ==
    call.op = "analyze" =>
        /\ session_stats = call.stats
        /\ last_notifications = call.table

\* C22: total_opportunities_found is the total length of the lists analyze
\* returned and alerts_sent the total length of the lists filter returned;
\* each call adds the length of the list it returns to its own counter and
\* leaves the other counter alone.
C22_CountersMatchReturned ==
    /\ session_stats.total_opportunities_found = returned.analyze
    /\ session_stats.alerts_sent = returned.filter
    /\ call.op = "analyze" =>
         /\ session_stats.alerts_sent = call.stats.alerts_sent
         /\ raised = "none" =>
              session_stats.total_opportunities_found
                = call.stats.total_opportunities_found + Len(opportunities)
    /\ call.op = "filter" =>
         /\ session_stats.total_opportunities_found
              = call.stats.total_opportunities_found
         /\ session_stats.alerts_sent
              = call.stats.alerts_sent + Len(limited_opportunities)

\* After analyze calls that found opportunities, a filter call accepted
\* more than the truncation let it return.
C22_Witness ==
    /\ call.op = "filter"
    /\ session_stats.total_opportunities_found > 1
    /\ Len(new_opportunities) > Len(limited_opportunities)
    /\ call.table # <<>>

\* The symbols of a batch with two samples or more whose spread between
\* the lowest and the highest price is at least the threshold.
OverThreshold(lst) ==
    {y \in {lst[j].symbol : j \in DOMAIN lst} :
        LET P == {j \in DOMAIN lst : lst[j].symbol = y} IN
        /\ Cardinality(P) >= 2
        /\ \E j, k \in P :
             /\ \A n \in P : lst[j].price <= lst[n].price
                              /\ lst[n].price <= lst[k].price
             /\ lst[j].price # 0
             /\ FloatGE(SpreadOf(lst[j].price, lst[k].price),
                        FromInt(config.PRICE_DIFFERENCE_THRESHOLD))}

\* C24: get_market_overview leaves the cooldown table and the session
\* counters as it found them, and its symbols_with_arbitrage is a function
\* of the batch and the threshold alone.
C24_OverviewIsPure ==
    call.op = "overview" =>
        /\ session_stats = call.stats
        /\ last_notifications = call.table
        /\ overview.raised = "none" =>
             overview.symbols_with_arbitrage
                = Cardinality(OverThreshold(overview.price_data))

\* An overview counted a symbol whose key is under a cooldown entry.
C24_Witness ==
    /\ call.op = "overview"
    /\ overview.raised = "none"
    /\ overview.symbols_with_arbitrage = 1
    /\ \E i \in DOMAIN opportunities :
         KeyOf(opportunities[i]) \in DOMAIN last_notifications

(***************************************************************************)
(* Properties of the running system (Spec).                                *)
(***************************************************************************)
\* C3: every opportunity handed to send_arbitrage_alerts is an element of
\* the list filter_notifications returned for that cycle.
C3_DispatchedWasGated ==
    \A i \in DOMAIN dispatched :
        dispatched[i] \in Range(limited_opportunities)

\* C4: send_arbitrage_alerts is never handed an opportunity whose (symbol,
\* buy, sell) it was handed less than ALERT_COOLDOWN_MINUTES before.
C4_NoRepeatWithinCooldown ==
    \A i \in DOMAIN dispatched :
        LET k == Triple(dispatched[i]) IN
        k \in DOMAIN sent_before =>
            dispatched_at - sent_before[k] >= 60 * config.ALERT_COOLDOWN_MINUTES

\* C23: a collaborator failing while one symbol is processed never keeps
\* the remaining symbols of the cycle from being fetched and analyzed: when
\* a network lookup raised, no symbol of the cycle is left unprocessed.
C23_FailureKeepsRest ==
    (pc = "handler" /\ raised = "NetworkLookupError")
        => symbol_index = Len(symbols)

\* 1 while an iteration of the monitoring loop is under way in which
\* fetch_all_tickers has not returned, else 0.
InProgress ==
    IF pc \in {"exchanges", "symbols", "no_symbols", "fetch", "analyze",
              "networks", "dispatch", "handler"}
    THEN 1 ELSE 0

\* C28: cycles_completed counts the iterations that went through fetching
\* and analysis of all symbols without an exception (the one whose count is
\* about to be taken apart), and none of those skipped for want of symbols
\* or aborted by an exception: the iterations begun are the finished ones,
\* the skipped, the aborted, the one under way, and the one a break ended
\* before its fetching and analysis were over.
C28_CountsFinishedIterations ==
    /\ session_stats.cycles_completed
         = iterations.finished - (IF pc = "cycle_end" THEN 1 ELSE 0)
    /\ cycle_count - iterations.finished - iterations.skipped
         - iterations.aborted - InProgress \in {0, iterations.interrupted}

\* One iteration was skipped and one aborted after its analysis had found
\* an opportunity: total_opportunities_found grew, cycles_completed did not.
C28_Witness ==
    /\ pc = "loop"
    /\ iterations.skipped = 1
    /\ iterations.aborted = 1
    /\ session_stats.cycles_completed = 0
    /\ session_stats.total_opportunities_found > 0

(***************************************************************************)
(* Properties of the analyzer (SpecAnalyzer).                              *)
(***************************************************************************)
\* The samples of a symbol that pass the volume filter.
Filtered(symbol) ==
    {price_data[i] : i \in {j \in DOMAIN price_data :
        /\ price_data[j].symbol = symbol
        /\ price_data[j].volume_24h >= config.MIN_VOLUME_USD}}

\* C8: every emitted opportunity buys at the minimum and sells at the
\* maximum price among its symbol's volume-filtered samples, on the venues
\* of two such samples.
C8_BuyMinSellMax ==
    \A i \in DOMAIN opportunities :
        LET o == opportunities[i]
            V == Filtered(o.symbol) IN
        /\ \A p \in V : o.buy_price <= p.price /\ p.price <= o.sell_price
        /\ \E p \in V : p.price = o.buy_price /\ p.exchange = o.buy_exchange
        /\ \E p \in V : p.price = o.sell_price /\ p.exchange = o.sell_exchange

\* An opportunity came out of filtered samples given out of price order,
\* while a sample under the volume filter had a lower price.
C8_Witness ==
    /\ pc = "analyzed"
    /\ \E i \in DOMAIN opportunities :
         LET o == opportunities[i] IN
         /\ Cardinality(Filtered(o.symbol)) >= 2
         /\ \E j \in DOMAIN price_data :
              /\ price_data[j].symbol = o.symbol
              /\ price_data[j].volume_24h < config.MIN_VOLUME_USD
              /\ price_data[j].price < o.buy_price
         /\ \E j, k \in DOMAIN price_data :
              /\ j < k
              /\ price_data[j].symbol = o.symbol
              /\ price_data[k].symbol = o.symbol
              /\ price_data[j].price > price_data[k].price

\* C9: no returned opportunity has price_difference_percent > 50.
C9_NoSpreadAboveCap ==
    \A i \in DOMAIN opportunities :
        /\ ~ QuotGT(opportunities[i].price_difference_percent, SanityCap)
        /\ 100 * (opportunities[i].sell_price - opportunities[i].buy_price)
              <= SanityCap * opportunities[i].buy_price

\* Two fresh, liquid samples on different venues differ by more than 50 %,
\* above the threshold, and the call returned nothing.
C9_Witness ==
    /\ pc = "analyzed"
    /\ raised = "none"
    /\ opportunities = <<>>
    /\ \E j, k \in DOMAIN price_data :
         LET b == price_data[j]
             s == price_data[k] IN
         /\ b.symbol = s.symbol /\ b.exchange # s.exchange
         /\ b.volume_24h = 3 /\ s.volume_24h = 3
         /\ b.timestamp = now /\ s.timestamp = now
         /\ b.price > 0
         /\ 100 * (s.price - b.price) > SanityCap * b.price
         /\ 100 * (s.price - b.price) >= config.PRICE_DIFFERENCE_THRESHOLD * b.price

\* |t - timestamp| <= 300
Within300(t, timestamp) ==
    t - timestamp <= StaleSeconds /\ timestamp - t <= StaleSeconds

\* C10: every emitted opportunity has a buy sample and a sell sample that
\* were both observed within 300 seconds of the analysis time.
C10_BothSamplesFresh ==
    \A i \in DOMAIN opportunities :
        LET o == opportunities[i] IN
        /\ \E p \in Filtered(o.symbol) :
             /\ p.price = o.buy_price /\ p.exchange = o.buy_exchange
             /\ Within300(o.timestamp, p.timestamp)
        /\ \E p \in Filtered(o.symbol) :
             /\ p.price = o.sell_price /\ p.exchange = o.sell_exchange
             /\ Within300(o.timestamp, p.timestamp)

\* lst is ordered by non-increasing price_difference_percent.
SortedBySpreadDesc(lst) ==
    \A i, j \in DOMAIN lst :
        i < j => QuotGEQ(lst[i].price_difference_percent,
                         lst[j].price_difference_percent)

\* C11: the list analyze returns is ordered by non-increasing
\* price_difference_percent, for batches with any number of symbols.
C11_SortedBySpreadDesc == SortedBySpreadDesc(opportunities)

\* Three symbols yielded three opportunities with three different spreads,
\* and the symbol met first in the batch is not the one with the widest.
C11_Witness ==
    /\ pc = "analyzed"
    /\ Len(opportunities) = 3
    /\ \A i, j \in DOMAIN opportunities :
         i # j => opportunities[i].price_difference_percent
                    # opportunities[j].price_difference_percent
    /\ price_data[1].symbol = opportunities[3].symbol

\* The batch of the worked example: 100 on venue A and 106 on venue B.
ExampleBatches ==
    {<<PriceData("X", "A", 100, 3, 0), PriceData("X", "B", 106, 3, 0)>>,
     <<PriceData("X", "B", 106, 3, 0), PriceData("X", "A", 100, 3, 0)>>}

\* C13: every emitted opportunity has a spread >= 0 that equals
\* (sell_price - buy_price) / buy_price * 100 recomputed from its own
\* prices; the example batch (100 on A, 106 on B, threshold 5) yields exactly
\* one opportunity, 6 %, buying on A and selling on B.
C13_SpreadFromOwnPrices ==
    /\ \A i \in DOMAIN opportunities :
         LET o == opportunities[i]
             pd == o.price_difference_percent IN
         /\ FloatGE(pd, FromInt(0))
         /\ o.buy_price # 0
         /\ pd = SpreadOf(o.buy_price, o.sell_price)
    /\ (pc = "analyzed" /\ price_data \in ExampleBatches
          /\ config.PRICE_DIFFERENCE_THRESHOLD = 5)
         => /\ Len(opportunities) = 1
            /\ opportunities[1].symbol = "X"
            /\ opportunities[1].buy_exchange = "A"
            /\ opportunities[1].sell_exchange = "B"
            /\ opportunities[1].price_difference_percent = FromInt(6)

\* The example batch was analyzed with threshold 5 and gave one opportunity.
C13_Witness ==
    /\ pc = "analyzed"
    /\ price_data \in ExampleBatches
    /\ config.PRICE_DIFFERENCE_THRESHOLD = 5
    /\ Len(opportunities) = 1

\* The symbols of the last batch.
BatchSymbols == {price_data[j].symbol : j \in DOMAIN price_data}

\* Positions of the last batch holding a sample of the symbol with
\* volume_24h >= MIN_VOLUME_USD.
FilteredPositions(symbol) ==
    {j \in DOMAIN price_data :
        /\ price_data[j].symbol = symbol
        /\ price_data[j].volume_24h >= config.MIN_VOLUME_USD}

\* The candidate pair of a symbol with two filtered samples or more: the
\* lowest-priced one (the first given among equals) and the highest-priced
\* one (the last given among equals).
BuySample(symbol) ==
    LET P == FilteredPositions(symbol) IN
    price_data[CHOOSE j \in P : \A k \in P :
        \/ price_data[j].price < price_data[k].price
        \/ price_data[j].price = price_data[k].price /\ j <= k]
SellSample(symbol) ==
    LET P == FilteredPositions(symbol) IN
    price_data[CHOOSE j \in P : \A k \in P :
        \/ price_data[j].price > price_data[k].price
        \/ price_data[j].price = price_data[k].price /\ j >= k]

\* The symbols of the last batch that have a candidate pair.
CandidateSymbols ==
    {y \in BatchSymbols : Cardinality(FilteredPositions(y)) >= 2}

Emitted(symbol) ==
    \E i \in DOMAIN opportunities : opportunities[i].symbol = symbol

\* volume_24h >= 1.5 * MIN_VOLUME_USD
HasMargin(p) == 2 * p.volume_24h >= 3 * config.MIN_VOLUME_USD

\* Observed at most 300 s before the analysis, and not after it.
Fresh(p) == now - p.timestamp >= 0 /\ now - p.timestamp <= StaleSeconds

\* The pair (b, s) passes every validation rule.
PassesRules(b, s) ==
    /\ b.exchange # s.exchange
    /\ Fresh(b) /\ Fresh(s)
    /\ HasMargin(b) /\ HasMargin(s)
    /\ b.price > 0 /\ s.price > 0
    /\ 100 * (s.price - b.price) <= SanityCap * b.price

\* C14: every emitted opportunity was built from a buy sample and a sell
\* sample that both have volume_24h >= 1.5 * MIN_VOLUME_USD, and so has
\* min_volume_24h >= 1.5 * MIN_VOLUME_USD.
C14_BothSamplesLiquid ==
    \A i \in DOMAIN opportunities :
        LET o == opportunities[i]
            b == BuySample(o.symbol)
            s == SellSample(o.symbol) IN
        /\ b.exchange = o.buy_exchange /\ b.price = o.buy_price
        /\ s.exchange = o.sell_exchange /\ s.price = o.sell_price
        /\ HasMargin(b) /\ HasMargin(s)
        /\ o.min_volume_24h = Min2(b.volume_24h, s.volume_24h)
        /\ 2 * o.min_volume_24h >= 3 * config.MIN_VOLUME_USD

\* An opportunity was emitted for a symbol of which the batch also held a
\* sample that passes the volume filter but lacks the margin.
C14_Witness ==
    /\ pc = "analyzed"
    /\ \E i \in DOMAIN opportunities :
         \E j \in FilteredPositions(opportunities[i].symbol) :
             ~ HasMargin(price_data[j])

\* C15: a symbol with fewer than two samples, or fewer than two samples of
\* volume_24h >= MIN_VOLUME_USD, or samples of one venue only, yields no
\* opportunity.
C15_NeedsTwoFilteredSamples ==
    \A i \in DOMAIN opportunities :
        LET P == FilteredPositions(opportunities[i].symbol) IN
        /\ Cardinality(P) >= 2
        /\ Cardinality({price_data[j].exchange : j \in P}) >= 2

\* A symbol on two venues, fresh, positive prices, spread between the
\* threshold and the cap, one venue's volume below MIN_VOLUME_USD: nothing
\* was returned.
C15_Witness ==
    /\ pc = "analyzed"
    /\ raised = "none"
    /\ opportunities = <<>>
    /\ Len(price_data) = 2
    /\ LET b == price_data[1]
           s == price_data[2] IN
       /\ b.symbol = s.symbol /\ b.exchange # s.exchange
       /\ Fresh(b) /\ Fresh(s)
       /\ b.volume_24h < config.MIN_VOLUME_USD /\ HasMargin(s)
       /\ b.price > 0
       /\ 100 * (s.price - b.price) >= config.PRICE_DIFFERENCE_THRESHOLD * b.price
       /\ 100 * (s.price - b.price) <= SanityCap * b.price

\* C16: no returned opportunity has a spread below
\* PRICE_DIFFERENCE_THRESHOLD, and a candidate pair whose spread equals the
\* threshold and that passes every validation rule is emitted.
C16_ThresholdInclusive ==
    /\ \A i \in DOMAIN opportunities :
         LET o == opportunities[i] IN
         /\ FloatGE(o.price_difference_percent,
                    FromInt(config.PRICE_DIFFERENCE_THRESHOLD))
         /\ 100 * (o.sell_price - o.buy_price)
               >= config.PRICE_DIFFERENCE_THRESHOLD * o.buy_price
    /\ (pc = "analyzed" /\ raised = "none") =>
         \A y \in CandidateSymbols :
             LET b == BuySample(y)
                 s == SellSample(y) IN
             (/\ PassesRules(b, s)
              /\ 100 * (s.price - b.price)
                    = config.PRICE_DIFFERENCE_THRESHOLD * b.price)
                 => Emitted(y)

\* A candidate pair with a spread equal to the threshold was emitted.
C16_Witness ==
    /\ pc = "analyzed"
    /\ \E i \in DOMAIN opportunities :
         LET o == opportunities[i] IN
         100 * (o.sell_price - o.buy_price)
            = config.PRICE_DIFFERENCE_THRESHOLD * o.buy_price

\* The candidate pair (b, s) fails a validation rule as the code tests it.
FailsARule(b, s) ==
    \/ b.exchange = s.exchange
    \/ SecondsField(now, b.timestamp) > StaleSeconds
    \/ SecondsField(now, s.timestamp) > StaleSeconds
    \/ ~ HasMargin(b) \/ ~ HasMargin(s)
    \/ b.price <= 0 \/ s.price <= 0
    \/ 100 * (s.price - b.price) > SanityCap * b.price

\* The candidate pair (b, s) fails a validation rule as the rules are
\* stated: a sample not observed within 300 seconds of the analysis time
\* is stale, whatever its age.
FailsAStatedRule(b, s) ==
    \/ b.exchange = s.exchange
    \/ ~ Within300(now, b.timestamp)
    \/ ~ Within300(now, s.timestamp)
    \/ ~ HasMargin(b) \/ ~ HasMargin(s)
    \/ b.price <= 0 \/ s.price <= 0
    \/ 100 * (s.price - b.price) > SanityCap * b.price

\* C17: the returned list holds at most one opportunity per symbol, each
\* built from the symbol's candidate pair; a symbol whose candidate pair
\* fails a validation rule has none, whatever its other pairs are.
C17_OnlyCandidatePair ==
    /\ \A i, j \in DOMAIN opportunities :
         i # j => opportunities[i].symbol # opportunities[j].symbol
    /\ \A i \in DOMAIN opportunities :
         LET o == opportunities[i]
             b == BuySample(o.symbol)
             s == SellSample(o.symbol) IN
         /\ o.symbol \in CandidateSymbols
         /\ o.buy_exchange = b.exchange /\ o.buy_price = b.price
         /\ o.sell_exchange = s.exchange /\ o.sell_price = s.price
    /\ (pc = "analyzed" /\ raised = "none") =>
         \A y \in CandidateSymbols :
             FailsAStatedRule(BuySample(y), SellSample(y)) => ~ Emitted(y)

\* The candidate pair of a symbol failed a rule, another pair of venues of
\* the same symbol meets the threshold and every rule, and the call
\* returned without an opportunity for the symbol.
C17_Witness ==
    /\ pc = "analyzed"
    /\ raised = "none"
    /\ \E y \in CandidateSymbols :
         /\ FailsAStatedRule(BuySample(y), SellSample(y))
         /\ ~ Emitted(y)
         /\ \E j, k \in FilteredPositions(y) :
              /\ PassesRules(price_data[j], price_data[k])
              /\ 100 * (price_data[k].price - price_data[j].price)
                    >= config.PRICE_DIFFERENCE_THRESHOLD * price_data[j].price

\* C18: every returned opportunity buys and sells on different venues.
C18_DistinctVenues ==
    \A i \in DOMAIN opportunities :
        opportunities[i].buy_exchange # opportunities[i].sell_exchange

\* An opportunity was emitted from a batch holding two samples of its
\* symbol from one venue.
C18_Witness ==
    /\ pc = "analyzed"
    /\ \E i \in DOMAIN opportunities :
         \E j, k \in FilteredPositions(opportunities[i].symbol) :
             j # k /\ price_data[j].exchange = price_data[k].exchange

\* C19: no exception escapes analyze, whatever the batch holds.
C19_NoException == raised = "none"

\* C20: a symbol whose candidate spread is above 50 is reported with a
\* warning, and yields no opportunity, whatever other rule the pair fails.
C20_WarnsAboveCap ==
    (pc = "analyzed" /\ raised = "none") =>
        \A y \in CandidateSymbols :
            LET b == BuySample(y)
                s == SellSample(y) IN
            (b.price > 0 /\ 100 * (s.price - b.price) > SanityCap * b.price)
                => /\ y \in Range(warnings)
                   /\ ~ Emitted(y)

\* C26: among volume-filtered samples that tie for the minimum price the
\* buy sample is the first given, among those that tie for the maximum
\* price the sell sample is the last given: a symbol yields an opportunity
\* exactly when that pair meets the threshold and the validation rules, and
\* the opportunity carries the venues and the smaller volume of that pair.
C26_TiesByInputOrder ==
    (pc = "analyzed" /\ raised = "none") =>
        \A y \in CandidateSymbols :
            LET b == BuySample(y)
                s == SellSample(y) IN
            /\ Emitted(y) <=>
                 /\ ~ FailsARule(b, s)
                 /\ FloatGE(SpreadOf(b.price, s.price),
                            FromInt(config.PRICE_DIFFERENCE_THRESHOLD))
            /\ \A i \in DOMAIN opportunities :
                 opportunities[i].symbol = y =>
                     /\ opportunities[i].buy_exchange = b.exchange
                     /\ opportunities[i].sell_exchange = s.exchange
                     /\ opportunities[i].min_volume_24h
                          = Min2(b.volume_24h, s.volume_24h)

\* Two filtered samples tie for the minimum price, the first given has the
\* liquidity margin and the second has not, and the opportunity was emitted.
C26_Witness ==
    /\ pc = "analyzed"
    /\ \E i \in DOMAIN opportunities :
         \E j, k \in FilteredPositions(opportunities[i].symbol) :
             /\ j < k
             /\ price_data[j].price = opportunities[i].buy_price
             /\ price_data[k].price = opportunities[i].buy_price
             /\ HasMargin(price_data[j])
             /\ ~ HasMargin(price_data[k])

\* C25: max_spread_found is the largest spread of the batch: no symbol
\* with two samples or more has a wider spread between its lowest and its
\* highest price, whether or not that spread reaches the threshold.
C25_MaxSpreadObserved ==
    (overview.given /\ overview.raised = "none") =>
        LET lst == overview.price_data IN
        \A j, k \in DOMAIN lst :
            (/\ j # k
             /\ lst[j].symbol = lst[k].symbol
             /\ lst[j].price > 0)
                => FloatGE(overview.max_spread_found,
                           SpreadOf(lst[j].price, lst[k].price))

\* C32: when the system has stopped and shows its session summary, the
\* alerts_sent counter equals the number of opportunities that were handed
\* to send_arbitrage_alerts over all cycles.
C32_AlertsSentCountsDispatched ==
    pc = "stopped" => session_stats.alerts_sent = returned.dispatch

\* C33: once a stop signal has set is_running to false the monitoring
\* loop starts no new cycle: the test of the while loop does not pass again
\* (a cycle whose test had passed when the signal came still runs).
C33_NoCycleAfterStopSignal ==
    [][(stop_signalled /\ pc = "loop") => pc' # "cycle"]_vars

(***************************************************************************)
(* Properties of the notification gate (SpecGate).                         *)
(***************************************************************************)
CooldownSeconds == 60 * config.ALERT_COOLDOWN_MINUTES

\* C1: once a (symbol, buy, sell) was returned by filter at time T, no
\* opportunity with the same triple is returned at a time strictly between
\* T and T + ALERT_COOLDOWN_MINUTES, whatever the configured cooldown is.
C1_OncePerCooldownWindow ==
    \A i \in DOMAIN limited_opportunities :
        LET k == Triple(limited_opportunities[i]) IN
        k \in DOMAIN accept_before =>
            ~ (accept_before[k] < now /\ now < accept_before[k] + CooldownSeconds)

\* C2 (as stated): an opportunity whose triple was last returned at T and
\* that is presented at or after T + ALERT_COOLDOWN_MINUTES is in the
\* returned list, whatever else the input holds.
C2_ReturnedAfterCooldown ==
    \A i \in DOMAIN opportunities :
        LET k == Triple(opportunities[i]) IN
        (k \in DOMAIN accept_before /\ now >= accept_before[k] + CooldownSeconds)
            => opportunities[i] \in Range(limited_opportunities)

\* Position of the first occurrence of x in lst (0 when absent).
FirstIndex(lst, x) ==
    IF x \in Range(lst)
    THEN CHOOSE i \in DOMAIN lst : lst[i] = x /\ \A j \in 1..(i - 1) : lst[j] # x
    ELSE 0

\* C2 (amended): an opportunity whose key's cooldown entry was stamped at T
\* and that is presented at or after T + ALERT_COOLDOWN_MINUTES (boundary
\* included) passes the cooldown check; it is in the returned list when
\* fewer than MAX_ALERTS_PER_CYCLE opportunities that passed the check
\* precede it.
C2_PassesCheckAfterCooldown ==
    \A i \in DOMAIN opportunities :
        LET opp == opportunities[i]
            k == KeyOf(opp) IN
        (k \in DOMAIN before /\ now >= before[k] + CooldownSeconds) =>
            /\ opp \in Range(new_opportunities)
            /\ (config.MAX_ALERTS_PER_CYCLE >= 0
                /\ FirstIndex(new_opportunities, opp) <= config.MAX_ALERTS_PER_CYCLE)
                  => opp \in Range(limited_opportunities)

\* An opportunity presented exactly at T + cooldown, entry still retained, is returned.
C2_Witness ==
    \E i \in DOMAIN opportunities :
        LET k == KeyOf(opportunities[i]) IN
        /\ k \in DOMAIN before
        /\ now = before[k] + CooldownSeconds
        /\ now - before[k] <= RetentionSeconds
        /\ opportunities[i] \in Range(limited_opportunities)

\* C5: for MAX_ALERTS_PER_CYCLE >= 0 the returned list has at most
\* MAX_ALERTS_PER_CYCLE elements.
C5_AtMostMaxAlerts ==
    config.MAX_ALERTS_PER_CYCLE >= 0 =>
        Len(limited_opportunities) <= config.MAX_ALERTS_PER_CYCLE

\* More opportunities passed the cooldown check than the cap allows.
C5_Witness ==
    /\ Len(new_opportunities) > config.MAX_ALERTS_PER_CYCLE
    /\ Len(limited_opportunities) = config.MAX_ALERTS_PER_CYCLE
    /\ config.MAX_ALERTS_PER_CYCLE > 0

\* C6: after a filter call no cooldown entry is more than 4 hours older than
\* the call time, and the table holds at most one entry per distinct key.
C6_NoEntryOlderThanRetention ==
    /\ \A k \in DOMAIN last_notifications :
           now - last_notifications[k] <= RetentionSeconds
    /\ Cardinality(DOMAIN last_notifications)
           <= Cardinality({KeyOf(o) : o \in GateOpps})

\* An entry older than 4 hours was removed by a call that did not present its key.
C6_Witness ==
    \E k \in DOMAIN before :
        /\ now - before[k] > RetentionSeconds
        /\ k \notin DOMAIN last_notifications
        /\ k \notin {KeyOf(o) : o \in Range(opportunities)}

\* C7: an opportunity whose own key has no cooldown entry passes the
\* cooldown check, whatever the entry of the reversed direction is.
C7_ReverseNotSuppressed ==
    \A i \in DOMAIN opportunities :
        KeyOf(opportunities[i]) \notin DOMAIN before
            => opportunities[i] \in Range(new_opportunities)

\* The reversed direction has an entry inside its cooldown, and the
\* opportunity is returned all the same.
C7_Witness ==
    \E i \in DOMAIN opportunities :
        LET opp == opportunities[i] IN
        /\ KeyOf(opp) \notin DOMAIN before
        /\ ReverseKeyOf(opp) \in DOMAIN before
        /\ now - before[ReverseKeyOf(opp)] < CooldownSeconds
        /\ now > before[ReverseKeyOf(opp)]
        /\ opp \in Range(limited_opportunities)

\* Position i of the last filter input passed the cooldown check: its key
\* had no entry, or one older than the retention or at least as old as the
\* cooldown, and (the cooldown being positive) no earlier position of the
\* input has the same key.
PassedCheck(i) ==
    LET k == KeyOf(opportunities[i]) IN
    /\ \/ k \notin DOMAIN before
       \/ now - before[k] > RetentionSeconds
       \/ now - before[k] >= CooldownSeconds
    /\ \/ CooldownSeconds <= 0
       \/ \A j \in 1..(i - 1) : KeyOf(opportunities[j]) # k

\* The positions of the last filter input that passed, in input order.
RECURSIVE PassedPositions(_)
PassedPositions(i) ==
    IF i > Len(opportunities) THEN <<>>
    ELSE (IF PassedCheck(i) THEN <<i>> ELSE <<>>) \o PassedPositions(i + 1)

\* C12: the returned list is the first MAX_ALERTS_PER_CYCLE elements, in
\* input order, of the input opportunities that passed the cooldown check;
\* when the input is ordered by non-increasing spread, so is the returned
\* list, and no opportunity cut by the truncation has a wider spread than
\* a returned one.
C12_FirstAcceptedInOrder ==
    LET passed == PassedPositions(1)
        n == Min2(config.MAX_ALERTS_PER_CYCLE, Len(passed)) IN
    /\ Len(limited_opportunities) = n
    /\ \A m \in 1..n : limited_opportunities[m] = opportunities[passed[m]]
    /\ SortedBySpreadDesc(opportunities) =>
         /\ SortedBySpreadDesc(limited_opportunities)
         /\ \A m \in 1..n : \A c \in (n + 1)..Len(passed) :
              QuotGEQ(opportunities[passed[m]].price_difference_percent,
                      opportunities[passed[c]].price_difference_percent)

\* Two opportunities in descending order of spread both passed the check
\* and the cap of one kept the first, the wider.
C12_Witness ==
    /\ Len(opportunities) = 2
    /\ QuotGT(opportunities[1].price_difference_percent, 40)
    /\ ~ QuotGT(opportunities[2].price_difference_percent, 40)
    /\ Len(new_opportunities) = 2
    /\ config.MAX_ALERTS_PER_CYCLE = 1
    /\ limited_opportunities = <<opportunities[1]>>
    /\ before # <<>>

\* C27: an opportunity whose key has an entry older than 4 hours when
\* filter is called passes the cooldown check whatever
\* ALERT_COOLDOWN_MINUTES is, is returned unless the truncation cuts it, and
\* its entry holds the time of the call afterwards.
C27_EvictedEntryIsNoEntry ==
    \A i \in DOMAIN opportunities :
        LET opp == opportunities[i]
            k == KeyOf(opp) IN
        (k \in DOMAIN before /\ now - before[k] > RetentionSeconds) =>
            /\ opp \in Range(new_opportunities)
            /\ k \in DOMAIN last_notifications
            /\ last_notifications[k] = now
            /\ (config.MAX_ALERTS_PER_CYCLE >= 0
                /\ FirstIndex(new_opportunities, opp) <= config.MAX_ALERTS_PER_CYCLE)
                  => opp \in Range(limited_opportunities)

\* An entry older than 4 hours but younger than the cooldown was found,
\* and the opportunity was returned and its entry stamped anew.
C27_Witness ==
    \E i \in DOMAIN opportunities :
        LET opp == opportunities[i]
            k == KeyOf(opp) IN
        /\ k \in DOMAIN before
        /\ now - before[k] > RetentionSeconds
        /\ now - before[k] < CooldownSeconds
        /\ opp \in Range(limited_opportunities)
        /\ last_notifications[k] = now

\* The keys whose entry the last filter call created or changed.
StampedKeys ==
    {k \in DOMAIN last_notifications :
        k \notin DOMAIN before \/ before[k] # last_notifications[k]}

\* C29: a filter call creates or refreshes a cooldown entry only for the
\* opportunities in the list it returns.
C29_StampsOnlyReturned ==
    \A k \in StampedKeys :
        \E i \in DOMAIN limited_opportunities :
            KeyOf(limited_opportunities[i]) = k

\* Position i of the last filter input was rejected by the cooldown check
\* for an entry that was there on entry and is younger than the cooldown.
Rejected(i) ==
    LET k == KeyOf(opportunities[i]) IN
    /\ k \in DOMAIN before
    /\ now - before[k] <= RetentionSeconds
    /\ now - before[k] < CooldownSeconds

\* C30: a rejected opportunity is not returned and leaves the entry of its
\* key as it was.
C30_RejectionKeepsEntry ==
    \A i \in DOMAIN opportunities :
        Rejected(i) =>
            LET k == KeyOf(opportunities[i]) IN
            /\ opportunities[i] \notin Range(new_opportunities)
            /\ k \in DOMAIN last_notifications
            /\ last_notifications[k] = before[k]

\* An opportunity was rejected some time after its entry was stamped, and
\* the entry still holds the earlier time.
C30_Witness ==
    \E i \in DOMAIN opportunities :
        /\ Rejected(i)
        /\ before[KeyOf(opportunities[i])] < now
        /\ last_notifications[KeyOf(opportunities[i])] < now

(***************************************************************************)
(* Properties of the cooldown key (SpecKeys).                              *)
(***************************************************************************)
\* C31: two opportunities with different (symbol, buy, sell) triples have
\* different cooldown keys, also when a name contains "_"; so on a table
\* without entries every triple of the list passes the cooldown check, none
\* being suppressed by the acceptance of another.
C31_DistinctTriplesDistinctKeys ==
    /\ \A i, j \in DOMAIN opportunities :
          Triple(opportunities[i]) # Triple(opportunities[j])
              => KeyOf(opportunities[i]) # KeyOf(opportunities[j])
    /\ (call.op = "filter" /\ before = <<>>) =>
          \A i \in DOMAIN opportunities :
              \E j \in DOMAIN new_opportunities :
                  Triple(new_opportunities[j]) = Triple(opportunities[i])

====
